---- MODULE Spec2Model ----
(***************************************************************************)
(* aerotrace.models.engine: CylinderReading, CylinderReadings, EngineData. *)
(*                                                                         *)
(* Python values are records [t, x]: t is the Python type name and x the   *)
(* magnitude in tenths of a degree (1200.5 is x = 12005), so that int,     *)
(* float and bool values compare numerically as Python compares them and   *)
(* a float is never confused with the int of the same magnitude.           *)
(* Objects live in heaps (sequences indexed by object identity); a         *)
(* reference is an index into its heap.                                    *)
(***************************************************************************)
EXTENDS Integers, Sequences, FiniteSets

VARIABLES
    objs,      \* heap of CylinderReading instances: [number, value]
    lists,     \* heap of Python lists of CylinderReading
    colls,     \* heap of CylinderReadings instances: colls[c] is c._readings
    engines,   \* heap of EngineData instances
    last       \* the most recent call and its outcome

vars == <<objs, lists, colls, engines, last>>

\* Bounds of the model.
MaxReadings == 2    \* CylinderReading instances alive at once
MaxLen == 2         \* length of a list of readings
MaxColls == 2       \* CylinderReadings instances over the caller's list
MaxEngines == 2     \* EngineData instances

----------------------------------------------------------------------------
\* Python values.

IntV(n) == [t |-> "int", x |-> n]
FloatV(n) == [t |-> "float", x |-> n]
BoolV(n) == [t |-> "bool", x |-> n]
StrV == [t |-> "str", x |-> 0]
ListV == [t |-> "list", x |-> 0]
None == [t |-> "NoneType", x |-> 0]

\* 0, 1, 1.0, -0.5, True, then "1200", [] and None.
NumericValues == {IntV(0), IntV(10), FloatV(10), FloatV(-5), BoolV(10)}
NonNumericValues == {StrV, ListV, None}
Values == NumericValues \cup NonNumericValues
Numbers == -1 .. 2

\* isinstance(value, (int, float)); bool is a subclass of int.
isinstance_number(value) == value.t \in {"int", "float", "bool"}

\* Outcomes of a call.
NoError == "ok"
NumberError == "ValueError: Cylinder number must be >= 1"
ValueError == "ValueError: Temperature value must be numeric"
IndexError == "IndexError"

NoCall == [op |-> "none", self |-> 0, arg |-> 0, exc |-> NoError, ret |-> None]

----------------------------------------------------------------------------
\* CylinderReading

\* The dataclass-generated __init__: the fields are stored as given.
init_coerced(number, value) ==
    [number |-> number,
     value |-> IF isinstance_number(value) THEN FloatV(value.x) ELSE value]

CylinderReading_init(number, value) == [number |-> number, value |-> value]

\* __post_init__: the validation, in the order of the code.
post_init_nonneg(self) ==
    IF self.number < 0 THEN NumberError
    ELSE IF ~isinstance_number(self.value) THEN ValueError
    ELSE NoError

post_init_unchecked(self) ==
    IF ~isinstance_number(self.value) THEN ValueError ELSE NoError

post_init_any_value(self) ==
    IF self.number < 1 THEN NumberError ELSE NoError

post_init(self) ==
    IF self.number < 1 THEN NumberError
    ELSE IF ~isinstance_number(self.value) THEN ValueError
    ELSE NoError

\* CylinderReading(number, value): on an error no instance results.
CylinderReading(number, value) ==
    /\ LET self == CylinderReading_init(number, value)
           exc == post_init(self)
       IN /\ exc = NoError => Len(objs) < MaxReadings
          /\ objs' = IF exc = NoError THEN Append(objs, self) ELSE objs
          /\ last' = [op |-> "CylinderReading", self |-> 0,
                      arg |-> <<number, value>>, exc |-> exc,
                      ret |-> IF exc = NoError THEN Len(objs) + 1 ELSE 0]
    /\ UNCHANGED <<lists, colls, engines>>

\* The fields are plain attributes of a non-frozen dataclass: an assignment
\* stores the value and runs no validation.
setattr_number(r, number) ==
    /\ r \in 1 .. Len(objs)
    /\ objs' = [objs EXCEPT ![r].number = number]
    /\ last' = NoCall
    /\ UNCHANGED <<lists, colls, engines>>

setattr_value(r, value) ==
    /\ r \in 1 .. Len(objs)
    /\ objs' = [objs EXCEPT ![r].value = value]
    /\ last' = NoCall
    /\ UNCHANGED <<lists, colls, engines>>

InitReading ==
    /\ objs = <<>>
    /\ lists = <<>>
    /\ colls = <<>>
    /\ engines = <<>>
    /\ last = NoCall

NextReading ==
    \/ \E number \in Numbers, value \in Values : CylinderReading(number, value)
    \/ \E r \in 1 .. MaxReadings, number \in Numbers : setattr_number(r, number)
    \/ \E r \in 1 .. MaxReadings, value \in NumericValues : setattr_value(r, value)

SpecReading == InitReading /\ [][NextReading]_vars

----------------------------------------------------------------------------
\* CylinderReadings

\* The instances a list may hold: those whose construction succeeds.
ValidReadings ==
    {r \in {CylinderReading_init(n, v) : n \in Numbers, v \in Values} :
        post_init(r) = NoError}

\* __init__ keeps the caller's list itself: self._readings = readings.
init_copy(heap, readings) ==
    [heap |-> Append(heap, heap[readings]), ref |-> Len(heap) + 1]

CylinderReadings_init(heap, readings) == [heap |-> heap, ref |-> readings]

\* The list self._readings refers to, as it is now.
readings_of(self) == lists[colls[self]]

\* An element of a list as a call returns it: the object at position pos.
Item(rs, pos) == [pos |-> pos, obj |-> rs[pos]]

\* Comparison and subtraction of int, float and bool values.
Gt(a, b) == a.x > b.x
Lt(a, b) == a.x < b.x
Sub(a, b) ==
    [t |-> IF a.t = "float" \/ b.t = "float" THEN "float" ELSE "int",
     x |-> a.x - b.x]

\* __len__
len(self) == Len(readings_of(self))

\* __iter__: a fresh traversal of the list in stored order.
iter(self) == [i \in 1 .. Len(readings_of(self)) |-> Item(readings_of(self), i)]

\* list.__getitem__ for an int index: a negative index counts from the end.
list_getitem_no_wrap(rs, index) ==
    IF index < 0 \/ index >= Len(rs)
    THEN [exc |-> IndexError, ret |-> None]
    ELSE [exc |-> NoError, ret |-> Item(rs, index + 1)]

list_getitem(rs, index) ==
    LET i == IF index < 0 THEN index + Len(rs) ELSE index
    IN IF i < 0 \/ i >= Len(rs)
       THEN [exc |-> IndexError, ret |-> None]
       ELSE [exc |-> NoError, ret |-> Item(rs, i + 1)]

\* __getitem__
getitem(self, index) == list_getitem(readings_of(self), index)

\* max(rs, key=value) and min(rs, key=value) on a non-empty list: one pass
\* that replaces the best element only by a strictly better one.
RECURSIVE max_from(_, _, _)
max_from(rs, best, i) ==
    IF i > Len(rs) THEN best
    ELSE max_from(rs, IF Gt(rs[i].value, rs[best].value) THEN i ELSE best, i + 1)

RECURSIVE max_from_last(_, _, _)
max_from_last(rs, best, i) ==
    IF i > Len(rs) THEN best
    ELSE max_from_last(rs, IF ~Lt(rs[i].value, rs[best].value) THEN i ELSE best, i + 1)

RECURSIVE min_from(_, _, _)
min_from(rs, best, i) ==
    IF i > Len(rs) THEN best
    ELSE min_from(rs, IF Lt(rs[i].value, rs[best].value) THEN i ELSE best, i + 1)

RECURSIVE min_from_last(_, _, _)
min_from_last(rs, best, i) ==
    IF i > Len(rs) THEN best
    ELSE min_from_last(rs, IF ~Gt(rs[i].value, rs[best].value) THEN i ELSE best, i + 1)

py_max_last(rs) == Item(rs, max_from_last(rs, 1, 2))

py_max(rs) == Item(rs, max_from(rs, 1, 2))

py_min_last(rs) == Item(rs, min_from_last(rs, 1, 2))

py_min(rs) == Item(rs, min_from(rs, 1, 2))

get_hottest(self) ==
    IF readings_of(self) = <<>> THEN None ELSE py_max(readings_of(self))

get_coolest(self) ==
    IF readings_of(self) = <<>> THEN None ELSE py_min(readings_of(self))

\* A CylinderReading instance is truthy, None is not.
get_difference_swapped(self) ==
    LET hottest == get_hottest(self)
        coolest == get_coolest(self)
    IN IF hottest # None /\ coolest # None
       THEN Sub(coolest.obj.value, hottest.obj.value)
       ELSE None

get_difference(self) ==
    LET hottest == get_hottest(self)
        coolest == get_coolest(self)
    IN IF hottest # None /\ coolest # None
       THEN Sub(hottest.obj.value, coolest.obj.value)
       ELSE None

Call(op, self, arg, exc, ret) ==
    /\ self \in 1 .. Len(colls)
    /\ last' = [op |-> op, self |-> self, arg |-> arg, exc |-> exc, ret |-> ret]
    /\ UNCHANGED <<objs, lists, colls, engines>>

Len_(self) == Call("len", self, 0, NoError, len(self))
Iter(self) == Call("iter", self, 0, NoError, iter(self))
GetItem(self, index) ==
    Call("getitem", self, index, getitem(self, index).exc, getitem(self, index).ret)
GetHottest(self) == Call("get_hottest", self, 0, NoError, get_hottest(self))
GetCoolest(self) == Call("get_coolest", self, 0, NoError, get_coolest(self))
GetDifference(self) == Call("get_difference", self, 0, NoError, get_difference(self))

\* CylinderReadings(readings) over a list the caller holds.
CylinderReadings(readings) ==
    /\ readings \in 1 .. Len(lists)
    /\ Len(colls) < MaxColls
    /\ LET c == CylinderReadings_init(lists, readings)
       IN /\ lists' = c.heap
          /\ colls' = Append(colls, c.ref)
    /\ last' = [op |-> "CylinderReadings", self |-> Len(colls) + 1,
                arg |-> readings, exc |-> NoError, ret |-> None]
    /\ UNCHANGED <<objs, engines>>

\* The caller still holds the list and may change it: append, pop(index),
\* and an assignment to the value of the reading at a position.
list_append(l, r) ==
    /\ l \in 1 .. Len(lists)
    /\ Len(lists[l]) < MaxLen
    /\ lists' = [lists EXCEPT ![l] = Append(@, r)]
    /\ last' = NoCall
    /\ UNCHANGED <<objs, colls, engines>>

list_pop(l, p) ==
    /\ l \in 1 .. Len(lists)
    /\ p \in 1 .. Len(lists[l])
    /\ lists' = [lists EXCEPT ![l] = SubSeq(@, 1, p - 1) \o SubSeq(@, p + 1, Len(@))]
    /\ last' = NoCall
    /\ UNCHANGED <<objs, colls, engines>>

item_setattr_value(l, p, value) ==
    /\ l \in 1 .. Len(lists)
    /\ p \in 1 .. Len(lists[l])
    /\ lists' = [lists EXCEPT ![l][p].value = value]
    /\ last' = NoCall
    /\ UNCHANGED <<objs, colls, engines>>

Indices == -(MaxLen + 1) .. (MaxLen + 1)

\* readings = []; CylinderReadings(readings)
InitReadings ==
    LET c == CylinderReadings_init(<< <<>> >>, 1)
    IN /\ objs = <<>>
       /\ lists = c.heap
       /\ colls = <<c.ref>>
       /\ engines = <<>>
       /\ last = NoCall

NextReadings ==
    \/ \E l \in 1 .. Len(lists) : CylinderReadings(l)
    \/ \E l \in 1 .. Len(lists), r \in ValidReadings : list_append(l, r)
    \/ \E l \in 1 .. Len(lists), p \in 1 .. MaxLen : list_pop(l, p)
    \/ \E l \in 1 .. Len(lists), p \in 1 .. MaxLen, value \in NumericValues :
          item_setattr_value(l, p, value)
    \/ \E self \in 1 .. MaxColls : Len_(self)
    \/ \E self \in 1 .. MaxColls : Iter(self)
    \/ \E self \in 1 .. MaxColls, index \in Indices : GetItem(self, index)
    \/ \E self \in 1 .. MaxColls : GetHottest(self)
    \/ \E self \in 1 .. MaxColls : GetCoolest(self)
    \/ \E self \in 1 .. MaxColls : GetDifference(self)

SpecReadings == InitReadings /\ [][NextReadings]_vars

----------------------------------------------------------------------------
\* EngineData

ScalarFields ==
    {"rpm", "manifold_pressure", "oil_pressure", "oil_temperature",
     "fuel_pressure", "volts", "amps", "g_force"}

\* A scalar field defaults to None.
scalar_default(kw, f) == IF f \in DOMAIN kw THEN kw[f] ELSE None

\* The list literal of default_factory=lambda: CylinderReadings([]): every
\* evaluation makes a new list.
list_literal_shared(heap) ==
    IF heap = <<>> THEN [heap |-> << <<>> >>, ref |-> 1] ELSE [heap |-> heap, ref |-> 1]

list_literal(heap) == [heap |-> Append(heap, <<>>), ref |-> Len(heap) + 1]

\* default_factory: CylinderReadings([]) as a new instance.
default_factory(heap, cs) ==
    LET l == list_literal(heap)
        c == CylinderReadings_init(l.heap, l.ref)
    IN [heap |-> c.heap, colls |-> Append(cs, c.ref), ref |-> Len(cs) + 1]

collection_field(kw, f, heap, cs) ==
    IF f \in DOMAIN kw
    THEN [heap |-> heap, colls |-> cs, ref |-> kw[f]]
    ELSE default_factory(heap, cs)

\* EngineData(**kw): the dataclass-generated __init__, fields in the order of
\* their declaration.
EngineData(kw) ==
    /\ Len(engines) < MaxEngines
    /\ LET e == collection_field(kw, "egts", lists, colls)
           c == collection_field(kw, "chts", e.heap, e.colls)
           self == [rpm |-> scalar_default(kw, "rpm"),
                    manifold_pressure |-> scalar_default(kw, "manifold_pressure"),
                    egts |-> e.ref,
                    chts |-> c.ref,
                    oil_pressure |-> scalar_default(kw, "oil_pressure"),
                    oil_temperature |-> scalar_default(kw, "oil_temperature"),
                    fuel_pressure |-> scalar_default(kw, "fuel_pressure"),
                    volts |-> scalar_default(kw, "volts"),
                    amps |-> scalar_default(kw, "amps"),
                    g_force |-> scalar_default(kw, "g_force")]
       IN /\ engines' = Append(engines, self)
          /\ lists' = c.heap
          /\ colls' = c.colls
          /\ last' = [op |-> "EngineData", self |-> Len(engines) + 1,
                      arg |-> kw, exc |-> NoError, ret |-> None]
    /\ UNCHANGED objs

\* The keyword arguments tried: none; rpm=0.0, volts=0.0, g_force=-0.5; and
\* an existing collection as egts and chts.
NoArguments == [f \in {} |-> None]
Keywords ==
    {NoArguments,
     [rpm |-> FloatV(0), volts |-> FloatV(0), g_force |-> FloatV(-5)]}
        \cup {[egts |-> c, chts |-> c] : c \in 1 .. Len(colls)}

\* The reading appended to the collections of an EngineData.
EngineReadings == {r \in ValidReadings : r.number = 1 /\ r.value = FloatV(10)}

InitEngine ==
    /\ objs = <<>>
    /\ lists = <<>>
    /\ colls = <<>>
    /\ engines = <<>>
    /\ last = NoCall

NextEngine ==
    \/ \E kw \in Keywords : EngineData(kw)
    \/ \E l \in 1 .. Len(lists), r \in EngineReadings : list_append(l, r)
    \/ \E l \in 1 .. Len(lists), p \in 1 .. MaxLen : list_pop(l, p)
    \/ \E self \in 1 .. Len(colls) : Len_(self)

SpecEngine == InitEngine /\ [][NextEngine]_vars

----------------------------------------------------------------------------
\* Properties of CylinderReading.

Constructed == last.op = "CylinderReading"
ArgNumber == last.arg[1]
ArgValue == last.arg[2]
Valid(r) == r.number >= 1 /\ r.value \in NumericValues
IsAssignment ==
    \/ \E r \in 1 .. MaxReadings, number \in Numbers : setattr_number(r, number)
    \/ \E r \in 1 .. MaxReadings, value \in NumericValues : setattr_value(r, value)

\* C2 as stated: the fields are read-only, so every existing CylinderReading
\* has number >= 1 and a numeric value in every reachable state.
C2_AlwaysValid == \A r \in 1 .. Len(objs) : Valid(objs[r])

\* C2 amended: every CylinderReading has number >= 1 and a numeric value when
\* its construction succeeds, and a reading that satisfies this stops
\* satisfying it only by a direct assignment to one of its fields, which the
\* class permits and does not validate.
C2_ValidUnlessAssigned ==
    [][\A r \in 1 .. Len(objs') :
          /\ r > Len(objs) => Valid(objs'[r])
          /\ (r <= Len(objs) /\ Valid(objs[r]) /\ ~Valid(objs'[r])) => IsAssignment]_vars

\* A reading was assigned number 0 after construction while another one,
\* left alone, is still valid.
C2_Witness ==
    /\ Len(objs) = 2
    /\ objs[1].number = 0
    /\ Valid(objs[2])
    /\ last = NoCall

\* C3: for every integer n < 1 and every numeric v, CylinderReading(n, v)
\* fails with "Cylinder number must be >= 1" and no instance results.
C3_InvalidNumberRejected ==
    [][(last'.op = "CylinderReading" /\ last'.arg[1] < 1
            /\ last'.arg[2] \in NumericValues)
          => (last'.exc = NumberError /\ last'.ret = 0 /\ objs' = objs)]_vars

C3_Witness ==
    /\ Constructed /\ ArgNumber = 0 /\ ArgValue = FloatV(-5)
    /\ last.exc = NumberError
    /\ Len(objs) = 1

\* C4: for every integer n >= 1 and every non-numeric v (text, a list, None),
\* CylinderReading(n, v) fails with "Temperature value must be numeric".
C4_NonNumericRejected ==
    (Constructed /\ ArgNumber >= 1 /\ ArgValue \in NonNumericValues)
        => (last.exc = ValueError /\ last.ret = 0)

C4_Witness ==
    Constructed /\ ArgNumber = 2 /\ ArgValue = None /\ last.exc = ValueError

\* C9: for every integer n >= 1 and every numeric v, negative and zero
\* included, CylinderReading(n, v) succeeds and the instance has number = n
\* and value = v exactly (the same type, the same magnitude).
C9_RoundTrip ==
    (Constructed /\ ArgNumber >= 1 /\ ArgValue \in NumericValues)
        => /\ last.exc = NoError
           /\ last.ret = Len(objs)
           /\ objs[last.ret].number = ArgNumber
           /\ objs[last.ret].value = ArgValue

C9_Witness ==
    /\ Constructed /\ ArgNumber = 2 /\ ArgValue = IntV(0)
    /\ last.exc = NoError
    /\ objs[last.ret] = [number |-> 2, value |-> IntV(0)]

----------------------------------------------------------------------------
\* Properties of CylinderReadings.

Xs(rs) == {rs[i].value.x : i \in 1 .. Len(rs)}
MaxX(rs) == CHOOSE m \in Xs(rs) : \A x \in Xs(rs) : x <= m
MinX(rs) == CHOOSE m \in Xs(rs) : \A x \in Xs(rs) : m <= x
FirstAt(rs, x) == CHOOSE p \in 1 .. Len(rs) :
    rs[p].value.x = x /\ \A q \in 1 .. p - 1 : rs[q].value.x # x
Stored(rs, ret) == ret # None /\ ret.pos \in 1 .. Len(rs) /\ ret.obj = rs[ret.pos]

\* C1 as stated: at(index) fails with an index-range error for every index
\* with index >= length() or index < 0, and returns the element stored at
\* the position for every index in [0, length).
C1_NegativeIndexFails ==
    last.op = "getitem" =>
        LET rs == readings_of(last.self)
        IN IF last.arg >= Len(rs) \/ last.arg < 0
           THEN last.exc = IndexError
           ELSE last.exc = NoError /\ last.ret = Item(rs, last.arg + 1)

\* C1 amended: at(index) fails with an index-range error for every integer
\* index with index >= length() or index < -length(); for every index in
\* [0, length) it returns the element stored at that position, and for every
\* index in [-length, 0) the element stored at position length + index.
C1_IndexRange ==
    last.op = "getitem" =>
        LET rs == readings_of(last.self)
        IN IF last.arg >= Len(rs) \/ last.arg < -Len(rs)
           THEN last.exc = IndexError
           ELSE /\ last.exc = NoError
                /\ Stored(rs, last.ret)
                /\ last.ret.pos =
                     (IF last.arg >= 0 THEN last.arg ELSE Len(rs) + last.arg) + 1

\* at(-1) on a collection of two readings returned the second one.
C1_Witness ==
    /\ last.op = "getitem" /\ last.arg = -1
    /\ Len(readings_of(last.self)) = 2
    /\ last.exc = NoError /\ last.ret.pos = 2

\* C5: get_hottest() returns None exactly when the collection is empty;
\* otherwise the stored entry of maximum value, the first one in stored order
\* when several share the maximum.
C5_Hottest ==
    last.op = "get_hottest" =>
        LET rs == readings_of(last.self)
        IN /\ last.ret = None <=> rs = <<>>
           /\ rs # <<>> =>
                /\ Stored(rs, last.ret)
                /\ last.ret.obj.value.x = MaxX(rs)
                /\ last.ret.pos = FirstAt(rs, MaxX(rs))

\* Two readings share the maximum (1 and 1.0) and the first was returned.
C5_Witness ==
    /\ last.op = "get_hottest"
    /\ Len(readings_of(last.self)) = 2
    /\ readings_of(last.self)[1].value = IntV(10)
    /\ readings_of(last.self)[2].value = FloatV(10)
    /\ last.ret.pos = 1

\* C6: get_coolest() returns None exactly when the collection is empty;
\* otherwise the stored entry of minimum value, the first one in stored order
\* when several share the minimum.
C6_Coolest ==
    last.op = "get_coolest" =>
        LET rs == readings_of(last.self)
        IN /\ last.ret = None <=> rs = <<>>
           /\ rs # <<>> =>
                /\ Stored(rs, last.ret)
                /\ last.ret.obj.value.x = MinX(rs)
                /\ last.ret.pos = FirstAt(rs, MinX(rs))

C6_Witness ==
    /\ last.op = "get_coolest"
    /\ Len(readings_of(last.self)) = 2
    /\ readings_of(last.self)[1].value = FloatV(-5)
    /\ readings_of(last.self)[2].value = FloatV(-5)
    /\ readings_of(last.self)[1].number # readings_of(last.self)[2].number
    /\ last.ret.pos = 1

\* C7: get_difference() returns None if and only if the collection is empty;
\* otherwise the hottest value minus the coolest value, which is 0 for a
\* single reading and for identical values, and is never negative.
C7_Difference ==
    last.op = "get_difference" =>
        LET rs == readings_of(last.self)
        IN /\ last.ret = None <=> rs = <<>>
           /\ rs # <<>> =>
                /\ last.ret.t \in {"int", "float"}
                /\ last.ret.x = MaxX(rs) - MinX(rs)
                /\ last.ret.x >= 0
                /\ (Len(rs) = 1 \/ Cardinality(Xs(rs)) = 1) => last.ret.x = 0

\* 1 - (-0.5) = 1.5
C7_Witness ==
    /\ last.op = "get_difference"
    /\ Len(readings_of(last.self)) = 2
    /\ readings_of(last.self)[1].value = FloatV(-5)
    /\ readings_of(last.self)[2].value = IntV(10)
    /\ last.ret = FloatV(15)

\* C10: every query answers from the contents, at the moment of the call, of
\* the list that was passed to the constructor (here the caller's list,
\* lists[1], over which every collection was constructed), whatever the
\* caller did to that list since.
C10_NoStaleResult ==
    LET rs == lists[1]
    IN /\ last.op = "len" => last.ret = Len(rs)
       /\ last.op = "iter" =>
            /\ Len(last.ret) = Len(rs)
            /\ \A i \in 1 .. Len(rs) : last.ret[i] = Item(rs, i)
       /\ last.op = "get_hottest" =>
            IF rs = <<>> THEN last.ret = None
            ELSE Stored(rs, last.ret) /\ last.ret.pos = FirstAt(rs, MaxX(rs))
       /\ last.op = "get_coolest" =>
            IF rs = <<>> THEN last.ret = None
            ELSE Stored(rs, last.ret) /\ last.ret.pos = FirstAt(rs, MinX(rs))
       /\ last.op = "get_difference" =>
            IF rs = <<>> THEN last.ret = None
            ELSE last.ret # None /\ last.ret.x = MaxX(rs) - MinX(rs)

\* The first collection was constructed over the empty list; after the
\* caller appended two readings to that list it reports the second as hottest.
C10_Witness ==
    /\ last.op = "get_hottest" /\ last.self = 1
    /\ last.ret # None
    /\ last.ret.pos = 2
    /\ Len(lists[1]) = 2

----------------------------------------------------------------------------
\* Properties of EngineData.

\* C8: every EngineData() constructed with no arguments has its eight scalar
\* fields None and egts and chts of length 0, whatever was done before to the
\* collections of the EngineData instances constructed earlier.
C8_DefaultEngine ==
    (last.op = "EngineData" /\ DOMAIN last.arg = {}) =>
        LET e == engines[last.self]
        IN /\ \A f \in ScalarFields : e[f] = None
           /\ len(e.egts) = 0
           /\ len(e.chts) = 0

\* A second EngineData() after readings were appended to both default
\* collections of the first.
C8_Witness ==
    /\ last.op = "EngineData" /\ DOMAIN last.arg = {}
    /\ last.self = 2
    /\ len(engines[1].egts) = 1
    /\ len(engines[1].chts) = 2

====
